---- MODULE Spec2Model ----
(***************************************************************************)
(* Model of libakumuli/storage_engine/compression.cpp: the FCM predictor,  *)
(* the predictive double codec, the multi-stream chunk codec, the reorder  *)
(* helpers and the single-series data block writer and reader.             *)
(*                                                                         *)
(* A 64-bit word is the sequence of its 8 bytes, least significant first,  *)
(* so that every shift, mask and overflow of the code is computed on the   *)
(* full width.  A double is the word of its bit pattern.                   *)
(***************************************************************************)
EXTENDS Integers, Sequences, FiniteSets, TLC

\* ------------------------------------------------------------------ bounds

\* Values put into the double codec in one run.
MaxVals == 4
\* Samples put into a data block in one run.
MaxPuts == 44
\* next() calls made on a reader after it is exhausted.
MaxExtraReads == 2
\* Elements of an uncompressed chunk.
MaxChunkLen == 3
\* Rows of a header given to a reorder helper.
MaxRows == 3
\* Samples put by a client that uses the writer after commit().
MaxReusePuts == 18
\* commit() calls of that client.
MaxCommits == 2

MaxTput == 4

\* ------------------------------------------------------ words and bytes

Zero64 == <<0, 0, 0, 0, 0, 0, 0, 0>>

\* the element of a one-element set: The({e(x) : x \in {v}}) is e(v), with v
\* computed once
The(S) == CHOOSE x \in S : TRUE

Pow2(n) == 2 ^ n

RECURSIVE XorN(_, _, _)
\* a ^ b on n-bit operands
XorN(a, b, n) ==
    IF n = 0 THEN 0
    ELSE ((a + b) % 2) + 2 * XorN(a \div 2, b \div 2, n - 1)

U64Xor(a, b) == [i \in 1..8 |-> XorN(a[i], b[i], 8)]

\* a word from a small natural (n < 2^31)
U64FromNat(n) == [i \in 1..8 |-> IF i <= 4 THEN (n \div Pow2(8 * (i - 1))) % 256 ELSE 0]

\* the natural of a word known to be small (its high bytes are zero)
U64ToNat(w) == w[1] + 256 * w[2] + 65536 * w[3] + 16777216 * (w[4] % 128)

RECURSIVE SubBytes(_, _, _, _)
SubBytes(a, b, i, borrow) ==
    IF i > 8 THEN <<>>
    ELSE LET d == a[i] - b[i] - borrow
         IN <<d % 256>> \o SubBytes(a, b, i + 1, IF d < 0 THEN 1 ELSE 0)

\* a - b modulo 2^64
U64Sub(a, b) == SubBytes(a, b, 1, 0)

RECURSIVE AddBytes(_, _, _, _)
AddBytes(a, b, i, carry) ==
    IF i > 8 THEN <<>>
    ELSE LET s == a[i] + b[i] + carry
         IN <<s % 256>> \o AddBytes(a, b, i + 1, s \div 256)

\* a + b modulo 2^64
U64Add(a, b) == AddBytes(a, b, 1, 0)

RECURSIVE LessFrom(_, _, _)
LessFrom(a, b, i) ==
    IF i = 0 THEN FALSE
    ELSE IF a[i] # b[i] THEN a[i] < b[i]
    ELSE LessFrom(a, b, i - 1)

\* a < b, unsigned
U64Less(a, b) == LessFrom(a, b, 8)

\* diff >> nshift, for nshift a multiple of 8 (the only shifts the codec makes)
U64Shr(d, nshift) ==
    LET k == nshift \div 8
    IN [i \in 1..8 |-> IF i + k <= 8 THEN d[i + k] ELSE 0]

\* diff << nshift, for nshift a multiple of 8, truncated to 64 bits
U64Shl(d, nshift) ==
    LET k == nshift \div 8
    IN [i \in 1..8 |-> IF i - k >= 1 THEN d[i - k] ELSE 0]

RECURSIVE Clz8(_, _)
\* leading zero bits of a non-zero byte, counted from bit `top`
Clz8(b, top) == IF b >= Pow2(top) THEN 0 ELSE 1 + Clz8(b, top - 1)

RECURSIVE Ctz8(_)
\* trailing zero bits of a non-zero byte
Ctz8(b) == IF b % 2 = 1 THEN 0 ELSE 1 + Ctz8(b \div 2)

RECURSIVE ClzFrom(_, _)
ClzFrom(d, i) ==
    IF d[i] # 0 THEN Clz8(d[i], 7) ELSE 8 + ClzFrom(d, i - 1)

\* __builtin_clzl(diff), diff # 0
Clz(d) == ClzFrom(d, 8)

RECURSIVE CtzFrom(_, _)
CtzFrom(d, i) ==
    IF d[i] # 0 THEN Ctz8(d[i]) ELSE 8 + CtzFrom(d, i + 1)

\* __builtin_ctzl(diff), diff # 0
Ctz(d) == CtzFrom(d, 1)

\* bit k (0 = least significant) of a word
BitOf(w, k) == (w[(k \div 8) + 1] \div Pow2(k % 8)) % 2

\* number of significant bits of a word (0 for zero)
BitLen(w) == IF w = Zero64 THEN 0 ELSE 64 - Clz(w)

\* ------------------------------------------------------------ status codes

AKU_SUCCESS == "AKU_SUCCESS"
AKU_ENO_DATA == "AKU_ENO_DATA"
AKU_EOVERFLOW == "AKU_EOVERFLOW"
AKU_EBAD_DATA == "AKU_EBAD_DATA"
\* next() left by an exception (the out-of-data signal of a read past the end)
THROWN == "exception"

\* ------------------------------------------------------------ byte stream
\* Base128StreamWriter / Base128StreamReader (compression.h): a bounded region
\* and a cursor.  A writer is [buf, cap]: the bytes written so far and the size
\* of the region; a reader is [data, pos]: the region and the bytes consumed.

NewWriter(cap) == [buf |-> <<>>, cap |-> cap]

space_left(s) == s.cap - Len(s.buf)

stream_size(s) == Len(s.buf)

\* put_raw<T>(v): append the bytes of v; false, and nothing written, when they
\* do not fit
put_raw(s, bytes) ==
    IF space_left(s) < Len(bytes)
    THEN [ok |-> FALSE, s |-> s]
    ELSE [ok |-> TRUE, s |-> [s EXCEPT !.buf = @ \o bytes]]

\* allocate<T>(): reserve n bytes and return their offset; null (ok = FALSE)
\* when they do not fit
allocate(s, n) ==
    IF space_left(s) < n
    THEN [ok |-> FALSE, s |-> s, at |-> 0]
    ELSE [ok |-> TRUE, s |-> [s EXCEPT !.buf = @ \o [i \in 1..n |-> 0]],
          at |-> Len(s.buf)]

\* *placeholder = bytes, for a placeholder at offset `at`
patch(s, at, bytes) ==
    [s EXCEPT !.buf = [i \in 1..Len(@) |->
        IF i > at /\ i <= at + Len(bytes) THEN bytes[i - at] ELSE @[i]]]

\* little-endian fields
LE16(n) == <<n % 256, (n \div 256) % 256>>
LE32(n) == <<n % 256, (n \div 256) % 256, (n \div 65536) % 256, (n \div 16777216) % 256>>
RdLE16(data, at) == data[at + 1] + 256 * data[at + 2]

RECURSIVE WriteAll(_, _, _)
\* successive put_raw calls, stopping at the first one rejected
WriteAll(s, chunks, i) ==
    IF i > Len(chunks) THEN [ok |-> TRUE, s |-> s]
    ELSE The({ IF r.ok THEN WriteAll(r.s, chunks, i + 1) ELSE [ok |-> FALSE, s |-> s] :
               r \in {put_raw(s, chunks[i])} })

NewReader(data, pos) == [data |-> data, pos |-> pos]

\* read_raw<T>(): consume n bytes; the out-of-data signal (ok = FALSE) past the end
read_raw(r, n) ==
    IF r.pos + n > Len(r.data)
    THEN [ok |-> FALSE, r |-> r, val |-> <<>>]
    ELSE [ok |-> TRUE, r |-> [r EXCEPT !.pos = @ + n],
          val |-> SubSeq(r.data, r.pos + 1, r.pos + n)]

\* ------------------------------------------------------- base-128 varints

Group7(w, g) ==
    LET b(j) == IF 7 * g + j < 64 THEN BitOf(w, 7 * g + j) * Pow2(j) ELSE 0
    IN b(0) + b(1) + b(2) + b(3) + b(4) + b(5) + b(6)

VarintLen(w) == The({ IF n <= 7 THEN 1 ELSE (n + 6) \div 7 : n \in {BitLen(w)} })

\* 7 data bits per byte, least significant group first, continuation bit in
\* the MSB of every byte but the last
Varint(w) ==
    The({ [g \in 1..n |-> Group7(w, g - 1) + (IF g < n THEN 128 ELSE 0)] :
          n \in {VarintLen(w)} })

\* put(v) of the varint writer: all of the varint or nothing
put_varint(s, w) == put_raw(s, Varint(w))

RECURSIVE VarintEnd(_, _)
\* index of the varint's last byte, 0 when the data ends first
VarintEnd(data, i) ==
    IF i > Len(data) THEN 0
    ELSE IF data[i] < 128 THEN i
    ELSE VarintEnd(data, i + 1)

WordOfGroups(gs) ==
    LET bit(k) == IF (k \div 7) + 1 <= Len(gs)
                  THEN ((gs[(k \div 7) + 1] % 128) \div Pow2(k % 7)) % 2 ELSE 0
        byte(i) == bit(8 * i) + 2 * bit(8 * i + 1) + 4 * bit(8 * i + 2) + 8 * bit(8 * i + 3)
                   + 16 * bit(8 * i + 4) + 32 * bit(8 * i + 5) + 64 * bit(8 * i + 6)
                   + 128 * bit(8 * i + 7)
    IN [i \in 1..8 |-> byte(i - 1)]

\* next() of the varint reader
read_varint(r) ==
    The({ IF e = 0
          THEN [ok |-> FALSE, r |-> [r EXCEPT !.pos = Len(r.data)], val |-> Zero64]
          ELSE [ok |-> TRUE, r |-> [r EXCEPT !.pos = e],
                val |-> WordOfGroups(SubSeq(r.data, r.pos + 1, e))] :
          e \in {VarintEnd(r.data, r.pos + 1)} })

\* ------------------------------------------------------ delta-RLE codec
\* DeltaRLEWriter / DeltaRLEReader (compression.h): first-order differences,
\* run-length compressed, each run written as varint(run length), varint(delta).
\* A writer is [prev, rprev, reps, start]; a reader is [prev, rprev, reps].

NewDeltaRLEWriter(s) == [prev |-> Zero64, rprev |-> Zero64, reps |-> 0, start |-> stream_size(s)]

\* the pending run, written out
DeltaRLEFlush(w, s) ==
    The({ IF ~a.ok THEN [ok |-> FALSE, w |-> w, s |-> s]
          ELSE The({ IF ~b.ok THEN [ok |-> FALSE, w |-> w, s |-> a.s]
                     ELSE [ok |-> TRUE, w |-> [w EXCEPT !.reps = 0], s |-> b.s] :
                     b \in {put_varint(a.s, w.rprev)} }) :
          a \in {put_varint(s, U64FromNat(w.reps))} })

DeltaRLEPut(w, s, v) ==
    The({ IF delta # w.rprev
          THEN The({ IF ~f.ok THEN f
                     ELSE [ok |-> TRUE, s |-> f.s,
                           w |-> [f.w EXCEPT !.rprev = delta, !.reps = 1]] :
                     f \in { IF w.reps # 0 THEN DeltaRLEFlush([w EXCEPT !.prev = v], s)
                             ELSE [ok |-> TRUE, w |-> [w EXCEPT !.prev = v], s |-> s] } })
          ELSE [ok |-> TRUE, w |-> [w EXCEPT !.prev = v, !.reps = @ + 1], s |-> s] :
          delta \in {U64Sub(v, w.prev)} })

DeltaRLECommit(w, s) ==
    IF w.reps # 0 THEN DeltaRLEFlush(w, s) ELSE [ok |-> TRUE, w |-> w, s |-> s]

RECURSIVE DeltaRLEPutAll(_, _, _, _)
DeltaRLEPutAll(w, s, vs, i) ==
    IF i > Len(vs) THEN [ok |-> TRUE, w |-> w, s |-> s]
    ELSE The({ IF r.ok THEN DeltaRLEPutAll(r.w, r.s, vs, i + 1) ELSE r :
               r \in {DeltaRLEPut(w, s, vs[i])} })

\* tput(values, n): put each value, then commit; false at the first rejection
DeltaRLETput(w, s, vs) ==
    The({ IF r.ok THEN DeltaRLECommit(r.w, r.s) ELSE r : r \in {DeltaRLEPutAll(w, s, vs, 1)} })

DeltaRLESize(w, s) == stream_size(s) - w.start

\* reps_-- on an unsigned run length: a run length of zero wraps to a run that
\* never ends
RunLeft(n) == IF n = 0 THEN 2147483647 ELSE n - 1

NewDeltaRLEReader == [prev |-> Zero64, rprev |-> Zero64, reps |-> 0]

\* the next run, read: run length, then delta
ReadRun(r) ==
    The({ IF ~a.ok THEN [ok |-> FALSE, r |-> a.r, reps |-> 0, delta |-> Zero64]
          ELSE The({ [ok |-> b.ok, r |-> b.r, reps |-> U64ToNat(a.val), delta |-> b.val] :
                     b \in {read_varint(a.r)} }) :
          a \in {read_varint(r)} })

\* next(): the out-of-data signal (ok = FALSE) when a run is missing
DeltaRLENext(d, r) ==
    IF d.reps = 0
    THEN The({ IF ~x.ok THEN [ok |-> FALSE, d |-> d, r |-> x.r, val |-> Zero64]
               ELSE The({ [ok |-> TRUE, r |-> x.r, val |-> v,
                           d |-> [prev |-> v, rprev |-> x.delta, reps |-> RunLeft(x.reps)]] :
                          v \in {U64Add(d.prev, x.delta)} }) :
               x \in {ReadRun(r)} })
    ELSE The({ [ok |-> TRUE, d |-> [d EXCEPT !.prev = v, !.reps = @ - 1], r |-> r, val |-> v] :
               v \in {U64Add(d.prev, d.rprev)} })

RECURSIVE DeltaRLENextN(_, _, _)
\* n calls of next(): the values read before the first that ran out of data
DeltaRLENextN(d, r, n) ==
    IF n = 0 THEN [ok |-> TRUE, d |-> d, r |-> r, vals |-> <<>>]
    ELSE The({ IF ~x.ok THEN [ok |-> FALSE, d |-> x.d, r |-> x.r, vals |-> <<>>]
               ELSE The({ [rest EXCEPT !.vals = <<x.val>> \o @] :
                          rest \in {DeltaRLENextN(x.d, x.r, n - 1)} }) :
               x \in {DeltaRLENext(d, r)} })

\* -------------------------------------------------------- FCM predictor
\* A predictor is [table, last_hash].  The table of PREDICTOR_N zeroed words is
\* kept as the function of its non-zero entries.

PREDICTOR_N == 1024

PredictorMask == PREDICTOR_N - 1

NewPredictor == [table |-> <<>>, last_hash |-> 0]

predict_next(p) == IF p.last_hash \in DOMAIN p.table THEN p.table[p.last_hash] ELSE Zero64

TableSet(t, h, v) ==
    IF v = Zero64 THEN [x \in (DOMAIN t) \ {h} |-> t[x]]
    ELSE [x \in (DOMAIN t) \cup {h} |-> IF x = h THEN v ELSE t[x]]

NextHashUnmasked(h, value) == XorN(h * 64, value[7] + 256 * value[8], 16)

\* ((last_hash << 6) ^ (value >> 48)) & MASK_
NextHash(h, value) == XorN(h * 64, value[7] + 256 * value[8], 16) % (PredictorMask + 1)

update(p, value) ==
    [table |-> TableSet(p.table, p.last_hash, value),
     last_hash |-> NextHash(p.last_hash, value)]

\* ------------------------------------------------ predictive double codec

\* the flag of a diff: bit 3 says the leading bytes are stored, the low three
\* bits are the number of bytes stored minus one
FlagOf(leading_zeros, trailing_zeros) ==
    IF trailing_zeros > leading_zeros
    THEN The({ 8 + ((IF nbytes > 0 THEN nbytes - 1 ELSE nbytes) % 8) :
               nbytes \in {8 - trailing_zeros \div 8} })
    ELSE The({ (IF nbytes > 0 THEN nbytes - 1 ELSE nbytes) % 8 :
               nbytes \in {8 - leading_zeros \div 8} })

SelectFlag(diff) ==
    IF diff # Zero64 THEN FlagOf(Clz(diff), Ctz(diff)) ELSE FlagOf(64, 64)

\* the put_raw calls of encode_value, in order
EncodeWrites(diff, flag) ==
    The({ CASE nbytes = 8 -> <<SubSeq(d, 1, 8)>>
            [] nbytes = 7 -> << <<d[1]>>, <<d[2]>>, <<d[3]>>, SubSeq(d, 4, 7) >>
            [] nbytes = 6 -> << <<d[1]>>, <<d[2]>>, SubSeq(d, 3, 6) >>
            [] nbytes = 5 -> << <<d[1]>>, SubSeq(d, 2, 5) >>
            [] nbytes = 4 -> <<SubSeq(d, 1, 4)>>
            [] nbytes = 3 -> << <<d[1]>>, <<d[2]>>, <<d[3]>> >>
            [] nbytes = 2 -> << <<d[1]>>, <<d[2]>> >>
            [] nbytes = 1 -> << <<d[1]>> >> :
          nbytes \in {(flag % 8) + 1},
          d \in {U64Shr(diff, (64 - ((flag % 8) + 1) * 8) * (flag \div 8))} })

encode_value(wstream, diff, flag) == WriteAll(wstream, EncodeWrites(diff, flag), 1)

DecodeValueUnshifted(rstream, flag) ==
    The({ IF ~x.ok
          THEN [ok |-> FALSE, r |-> [rstream EXCEPT !.pos = Len(rstream.data)], val |-> Zero64]
          ELSE [ok |-> TRUE, r |-> x.r,
                val |-> [i \in 1..8 |-> IF i <= nbytes THEN x.val[i] ELSE 0]] :
          nbytes \in {(flag % 8) + 1},
          x \in {read_raw(rstream, (flag % 8) + 1)} })

decode_value(rstream, flag) ==
    The({ IF ~x.ok
          THEN [ok |-> FALSE, r |-> [rstream EXCEPT !.pos = Len(rstream.data)], val |-> Zero64]
          ELSE [ok |-> TRUE, r |-> x.r,
                val |-> U64Shl([i \in 1..8 |-> IF i <= nbytes THEN x.val[i] ELSE 0],
                               (64 - nbytes * 8) * (flag \div 8))] :
          nbytes \in {(flag % 8) + 1},
          x \in {read_raw(rstream, (flag % 8) + 1)} })

\* FcmStreamWriter: [predictor, prev_diff, prev_flag, nelements]
NewFcmWriter ==
    [predictor |-> NewPredictor, prev_diff |-> Zero64, prev_flag |-> 0, nelements |-> 0]

WritePairKeepGoing(s, flags, d1, f1, d2, f2) ==
    The({ The({ The({ [ok |-> a.ok /\ b.ok /\ c.ok, s |-> c.s] :
                      c \in {encode_value(b.s, d2, f2)} }) :
                b \in {encode_value(a.s, d1, f1)} }) :
          a \in {put_raw(s, <<flags % 256>>)} })

\* the flag byte and the two encoded diffs of a pair, stopping at the first
\* write rejected
WritePair(s, flags, d1, f1, d2, f2) ==
    The({ IF ~a.ok THEN [ok |-> FALSE, s |-> s]
          ELSE The({ IF ~b.ok THEN [ok |-> FALSE, s |-> b.s]
                     ELSE encode_value(b.s, d2, f2) :
                     b \in {encode_value(a.s, d1, f1)} }) :
          a \in {put_raw(s, <<flags % 256>>)} })

FcmPut(w, s, value) ==
    The({ IF w.nelements % 2 = 0
          THEN [ok |-> TRUE, s |-> s,
                w |-> [w EXCEPT !.predictor = p1, !.prev_diff = diff,
                                !.prev_flag = SelectFlag(diff), !.nelements = @ + 1]]
          ELSE The({ IF r.ok
                     THEN [ok |-> TRUE, s |-> r.s,
                           w |-> [w EXCEPT !.predictor = p1, !.nelements = @ + 1]]
                     ELSE [ok |-> FALSE, s |-> r.s, w |-> [w EXCEPT !.predictor = p1]] :
                     r \in {The({ WritePair(s, w.prev_flag * 16 + flag, w.prev_diff,
                                            w.prev_flag, diff, flag) :
                                  flag \in {SelectFlag(diff)} })} }) :
          p1 \in {update(w.predictor, value)},
          diff \in {U64Xor(value, predict_next(w.predictor))} })

\* Base128StreamWriter::commit: nothing is deferred, always true
stream_commit(s) == TRUE

FcmCommitOnEven(w, s) ==
    IF w.nelements % 2 = 0
    THEN The({ [ok |-> r.ok /\ stream_commit(r.s), s |-> r.s, w |-> w] :
               r \in {WritePair(s, w.prev_flag * 16, w.prev_diff, w.prev_flag, Zero64, 0)} })
    ELSE [ok |-> stream_commit(s), s |-> s, w |-> w]

FcmCommit(w, s) ==
    IF w.nelements % 2 # 0
    THEN The({ [ok |-> r.ok /\ stream_commit(r.s), s |-> r.s, w |-> w] :
               r \in {WritePair(s, w.prev_flag * 16, w.prev_diff, w.prev_flag, Zero64, 0)} })
    ELSE [ok |-> stream_commit(s), s |-> s, w |-> w]

RECURSIVE FcmPutAll(_, _, _, _)
FcmPutAll(w, s, values, i) ==
    IF i > Len(values) THEN [ok |-> TRUE, s |-> s, w |-> w]
    ELSE The({ IF r.ok THEN FcmPutAll(r.w, r.s, values, i + 1) ELSE r :
               r \in {FcmPut(w, s, values[i])} })

FcmTput(w, s, values) ==
    The({ IF r.ok THEN FcmCommit(r.w, r.s) ELSE r : r \in {FcmPutAll(w, s, values, 1)} })

WritePairSecondFirst(s, flags, d1, f1, d2, f2) ==
    The({ The({ encode_value(b, d1, f1).s : b \in {encode_value(a, d2, f2).s} }) :
          a \in {put_raw(s, <<flags % 256>>).s} })

\* the writes of a pair with every result dropped: the flag byte, then the two
\* diffs, each encode_value stopping at its own first rejected write
WritePairUnchecked(s, flags, d1, f1, d2, f2) ==
    The({ The({ encode_value(b, d2, f2).s : b \in {encode_value(a, d1, f1).s} }) :
          a \in {put_raw(s, <<flags % 256>>).s} })

RECURSIVE CompressLoop(_, _, _, _, _, _)
CompressLoop(input, ix, predictor, prev_diff, prev_flag, wstream) ==
    IF ix = Len(input)
    THEN IF Len(input) % 2 # 0
         THEN WritePairUnchecked(wstream, prev_flag * 16, prev_diff, prev_flag, Zero64, 0)
         ELSE wstream
    ELSE The({ IF ix % 2 = 0
               THEN CompressLoop(input, ix + 1, p1, diff, SelectFlag(diff), wstream)
               ELSE The({ CompressLoop(input, ix + 1, p1, prev_diff, prev_flag, c) :
                          c \in {The({ WritePairUnchecked(wstream, prev_flag * 16 + flag,
                                           prev_diff, prev_flag, diff, flag) :
                                       flag \in {SelectFlag(diff)} })} }) :
               p1 \in {update(predictor, input[ix + 1])},
               diff \in {U64Xor(input[ix + 1], predict_next(predictor))} })

\* compress_doubles: the stream after the call, and the value returned
compress_doubles(input, wstream) ==
    [s |-> CompressLoop(input, 0, NewPredictor, Zero64, 0, wstream), n |-> Len(input)]

\* FcmStreamReader: [predictor, flags, iter]
NewFcmReader == [predictor |-> NewPredictor, flags |-> 0, iter |-> 0]

\* the flag byte of the pair: read on even iterations, kept on odd ones
PairFlags(flags, iter, r) ==
    IF iter % 2 = 0
    THEN The({ [ok |-> x.ok, r |-> x.r, flags |-> IF x.ok THEN x.val[1] ELSE flags] :
               x \in {read_raw(r, 1)} })
    ELSE [ok |-> TRUE, r |-> r, flags |-> flags]

FlagAtSwapped(flags, iter) == IF iter % 2 = 0 THEN flags % 16 ELSE flags \div 16

\* the flag of this iteration: the high nibble first, then the low one
FlagAt(flags, iter) == IF iter % 2 = 0 THEN flags \div 16 ELSE flags % 16

FcmNext(f, r) ==
    The({ IF ~x.ok
          THEN [ok |-> FALSE, f |-> [f EXCEPT !.iter = @ + 1], r |-> x.r, val |-> Zero64]
          ELSE The({ IF ~y.ok
                     THEN [ok |-> FALSE, r |-> y.r, val |-> Zero64,
                           f |-> [f EXCEPT !.iter = @ + 1, !.flags = x.flags]]
                     ELSE The({ [ok |-> TRUE, r |-> y.r, val |-> bits,
                                 f |-> [f EXCEPT !.iter = @ + 1, !.flags = x.flags,
                                                 !.predictor = update(f.predictor, bits)]] :
                                bits \in {U64Xor(predict_next(f.predictor), y.val)} }) :
                     y \in {decode_value(x.r, FlagAt(x.flags, f.iter))} }) :
          x \in {PairFlags(f.flags, f.iter, r)} })

RECURSIVE DecompressLoop(_, _, _, _, _, _, _)
\* decompress_doubles into an output vector of `cap` elements; result is
\* "ok", "out_of_data" (a read past the end) or "panic" (the vector is full)
DecompressLoop(rstream, numvalues, i, predictor, flags, out, cap) ==
    IF i >= numvalues THEN [result |-> "ok", r |-> rstream, out |-> out]
    ELSE The({ IF ~x.ok THEN [result |-> "out_of_data", r |-> x.r, out |-> out]
               ELSE The({ IF ~y.ok THEN [result |-> "out_of_data", r |-> y.r, out |-> out]
                          ELSE IF Len(out) >= cap
                          THEN [result |-> "panic", r |-> y.r, out |-> out]
                          ELSE The({ The({ DecompressLoop(y.r, numvalues, i + 1, p1, x.flags,
                                                          out1, cap) :
                                           p1 \in {update(predictor, bits)},
                                           out1 \in {Append(out, bits)} }) :
                                     bits \in {U64Xor(predict_next(predictor), y.val)} }) :
                          y \in {decode_value(x.r, FlagAt(x.flags, i))} }) :
               x \in {PairFlags(flags, i, rstream)} })

\* bytes the encoder writes at most for n values: a flag byte and two 8-byte
\* diffs per pair
WorstCaseBytes(n) == 17 * ((n + 1) \div 2)

\* ------------------------------------------------- multi-stream chunk codec
\* An UncompressedChunk is [paramids, timestamps, values], three sequences of
\* words.

AKU_MIN_TIMESTAMP == Zero64

AKU_MAX_TIMESTAMP == <<255, 255, 255, 255, 255, 255, 255, 255>>

U64MinOther(a, b) == IF U64Less(b, a) THEN a ELSE b

U64Min(a, b) == IF U64Less(b, a) THEN b ELSE a

U64Max(a, b) == IF U64Less(a, b) THEN b ELSE a

RECURSIVE PutEach(_, _, _, _, _)
\* the loop of a writer lambda: put(v) for each value, every result dropped;
\* ok says whether all were accepted
PutEach(w, s, vs, i, ok) ==
    IF i > Len(vs) THEN [ok |-> ok, w |-> w, s |-> s]
    ELSE The({ PutEach(r.w, r.s, vs, i + 1, ok /\ r.ok) : r \in {DeltaRLEPut(w, s, vs[i])} })

\* write_to_stream<DeltaRLEWriter>: the length prefix is allocated, the values
\* are put, the writer is committed and the prefix is patched with its size.
\* null says the prefix was not allocated (the patch then writes through a null
\* pointer); rejected says some write or allocation was refused.
write_to_stream(stream, vs) ==
    The({ The({ The({ [s |-> IF p.ok THEN patch(c.s, p.at, LE32(DeltaRLESize(c.w, c.s)))
                             ELSE c.s,
                       null |-> ~p.ok,
                       rejected |-> ~p.ok \/ ~w.ok \/ ~c.ok] :
                      c \in {DeltaRLECommit(w.w, w.s)} }) :
                w \in {PutEach(NewDeltaRLEWriter(p.s), p.s, vs, 1, TRUE)} }) :
          p \in {allocate(stream, 4)} })

RECURSIVE MinOf(_, _, _)
MinOf(ts, i, acc) == IF i > Len(ts) THEN acc ELSE MinOf(ts, i + 1, U64Min(acc, ts[i]))

RECURSIVE MaxOf(_, _, _)
MaxOf(ts, i, acc) == IF i > Len(ts) THEN acc ELSE MaxOf(ts, i + 1, U64Max(acc, ts[i]))

\* the value stream: ncolumns, then the prefix patched with what compress_doubles
\* returned, then the encoded values
WriteValues(stream, values) ==
    The({ The({ The({ [s |-> IF q.ok THEN patch(e.s, q.at, LE32(e.n)) ELSE e.s,
                       null |-> ~nc.ok \/ ~q.ok,
                       nblocks_at |-> q.at,
                       rejected |-> ~nc.ok \/ ~q.ok \/
                           Len(e.s.buf) # Len(compress_doubles(values,
                               [q.s EXCEPT !.cap = @ + WorstCaseBytes(Len(values))]).s.buf)] :
                      e \in {compress_doubles(values, q.s)} }) :
                q \in {allocate(IF nc.ok THEN patch(nc.s, nc.at, LE32(1)) ELSE nc.s, 4)} }) :
          nc \in {allocate(stream, 4)} })

\* encode_chunk over a range of `length` bytes.  No stream operation throws, so
\* the catch that returns AKU_EOVERFLOW is never entered.  A store through a
\* null placeholder is undefined: with on_null = "crash" the call never returns,
\* with on_null = "lost" the store is dropped and the call goes on.
\* ChunkWriter::commit (not part of this file) is taken to return AKU_SUCCESS.
encode_chunk(data, length, on_null) ==
    The({ The({ The({ IF (a.null \/ b.null \/ c.null) /\ on_null = "crash"
                      THEN [status |-> "crash", committed |-> FALSE, size |-> 0,
                            n_elements |-> 0, ts_begin |-> Zero64, ts_end |-> Zero64,
                            bytes |-> c.s.buf, nblocks_at |-> c.nblocks_at,
                            rejected |-> TRUE]
                      ELSE [status |-> AKU_SUCCESS, committed |-> TRUE,
                            size |-> stream_size(c.s),
                            n_elements |-> Len(data.paramids),
                            ts_begin |-> MinOf(data.timestamps, 1, AKU_MAX_TIMESTAMP),
                            ts_end |-> MaxOf(data.timestamps, 1, AKU_MIN_TIMESTAMP),
                            bytes |-> c.s.buf, nblocks_at |-> c.nblocks_at,
                            rejected |-> a.rejected \/ b.rejected \/ c.rejected] :
                      c \in {WriteValues(b.s, data.values)} }) :
                b \in {write_to_stream(a.s, data.timestamps)} }) :
          a \in {write_to_stream(NewWriter(length - 8), data.paramids)} })

RdLE32(bytes) == bytes[1] + 256 * bytes[2] + 65536 * bytes[3] + 16777216 * (bytes[4] % 128)

\* read_from_stream<DeltaRLEReader>: the size prefix is read and ignored, then
\* nelements values are read
read_from_stream(rstream, n) ==
    The({ IF ~p.ok THEN [ok |-> FALSE, r |-> p.r, vals |-> <<>>]
          ELSE The({ [ok |-> x.ok, r |-> x.r, vals |-> x.vals] :
                     x \in {DeltaRLENextN(NewDeltaRLEReader, p.r, n)} }) :
          p \in {read_raw(rstream, 4)} })

\* the payload: ncolumns (ignored), nblocks, then nblocks values decoded into a
\* vector resized to nelements
ReadValues(rstream, n) ==
    The({ IF ~nc.ok THEN [ok |-> FALSE, nblocks |-> -1, ndecoded |-> 0, values |-> <<>>]
          ELSE The({ IF ~nb.ok
                     THEN [ok |-> FALSE, nblocks |-> -1, ndecoded |-> 0,
                           values |-> [i \in 1..n |-> Zero64]]
                     ELSE The({ [ok |-> d.result = "ok",
                                 nblocks |-> RdLE32(nb.val),
                                 ndecoded |-> Len(d.out),
                                 values |-> [i \in 1..n |->
                                     IF i <= Len(d.out) THEN d.out[i] ELSE Zero64]] :
                                d \in {DecompressLoop(nb.r, RdLE32(nb.val), 0, NewPredictor,
                                                      0, <<>>, n)} }) :
                     nb \in {read_raw(nc.r, 4)} }) :
          nc \in {read_raw(rstream, 4)} })

\* decode_chunk into an empty header.  An out-of-data signal and the panic of
\* decompress_doubles are both caught and give AKU_EBAD_DATA; what was pushed
\* into the header before stays there.
decode_chunk(bytes, n) ==
    The({ IF ~a.ok
          THEN [status |-> AKU_EBAD_DATA, nblocks |-> -1, ndecoded |-> 0,
                header |-> [paramids |-> a.vals, timestamps |-> <<>>, values |-> <<>>]]
          ELSE The({ IF ~b.ok
                     THEN [status |-> AKU_EBAD_DATA, nblocks |-> -1, ndecoded |-> 0,
                           header |-> [paramids |-> a.vals, timestamps |-> b.vals,
                                       values |-> <<>>]]
                     ELSE The({ [status |-> IF c.ok THEN AKU_SUCCESS ELSE AKU_EBAD_DATA,
                                 nblocks |-> c.nblocks, ndecoded |-> c.ndecoded,
                                 header |-> [paramids |-> a.vals, timestamps |-> b.vals,
                                             values |-> c.values]] :
                                c \in {ReadValues(b.r, n)} }) :
                     b \in {read_from_stream(a.r, n)} }) :
          a \in {read_from_stream(NewReader(bytes, 0), n)} })

\* ------------------------------------------------------- reorder helpers

\* the comparator of convert_from_chunk_order ("chunk": by timestamp) and of
\* convert_from_time_order ("time": by paramid), on 0-based indexes
LessOrEqual(fn, header, lhs, rhs) ==
    IF fn = "chunk" THEN ~U64Less(header.timestamps[rhs + 1], header.timestamps[lhs + 1])
    ELSE ~U64Less(header.paramids[rhs + 1], header.paramids[lhs + 1])

Less(fn, header, lhs, rhs) ==
    IF fn = "chunk" THEN U64Less(header.timestamps[lhs + 1], header.timestamps[rhs + 1])
    ELSE U64Less(header.paramids[lhs + 1], header.paramids[rhs + 1])

RECURSIVE InsertSorted(_, _, _, _, _)
\* ix inserted into the sorted sequence `sorted` behind every element that is
\* not greater than it
InsertSorted(fn, header, sorted, ix, at) ==
    IF at > Len(sorted) \/ Less(fn, header, ix, sorted[at])
    THEN SubSeq(sorted, 1, at - 1) \o <<ix>> \o SubSeq(sorted, at, Len(sorted))
    ELSE InsertSorted(fn, header, sorted, ix, at + 1)

RECURSIVE StableSort(_, _, _, _)
\* std::stable_sort of index under the comparator
StableSort(fn, header, index, done) ==
    IF index = <<>> THEN done
    ELSE The({ StableSort(fn, header, Tail(index), d) :
               d \in {InsertSorted(fn, header, done, Head(index), 1)} })

\* reorder_chunk_header: the value returned and the out chunk after the call
reorder_chunk_header(header, out, fn) ==
    The({ IF len # Len(header.values) \/ len # Len(header.paramids)
          THEN [ret |-> FALSE, out |-> out]
          ELSE The({ [ret |-> TRUE,
                      out |-> [paramids |-> out.paramids \o
                                   [i \in 1..Len(index) |-> header.paramids[index[i] + 1]],
                               timestamps |-> out.timestamps \o
                                   [i \in 1..Len(index) |-> header.timestamps[index[i] + 1]],
                               values |-> out.values \o
                                   [i \in 1..Len(index) |-> header.values[index[i] + 1]]]] :
                     index \in {StableSort(fn, header, [i \in 1..len |-> i - 1], <<>>)} }) :
          len \in {Len(header.timestamps)} })

convert_from_chunk_order(header, out) == reorder_chunk_header(header, out, "chunk")

convert_from_time_order(header, out) == reorder_chunk_header(header, out, "time")

\* ================================================================ state
\* Four runs are modelled, each with its own variables: the double codec run
\* (f_), the chunk codec run (c_), the reorder run (r_) and the data block run
\* (b_).

VARIABLES
    f_cap,      \* size of the output region
    f_pc,       \* "put", "compress", "open", "read", "done"
    f_in,       \* the values put, in order
    f_w,        \* the FcmStreamWriter
    f_s,        \* its stream
    f_ok,       \* every put and the commit so far returned true
    f_batch,    \* the stream compress_doubles wrote
    f_src,      \* the encoding being decoded: "stream" or "batch"
    f_r,        \* the FcmStreamReader
    f_rs,       \* its stream
    f_out,      \* the values next() returned, in order
    f_rok,      \* no next() ran out of data
    f_dec,      \* the result of decompress_doubles, or <<>> before it ran
    f_commits   \* one record per commit after which the writer was used again

varsFcm ==
    <<f_cap, f_pc, f_in, f_w, f_s, f_ok, f_batch, f_src, f_r, f_rs, f_out, f_rok, f_dec,
      f_commits>>

VARIABLES
    c_pc,       \* "encode", "decode", "done"
    c_len,      \* length of the range ChunkWriter::allocate returned
    c_in,       \* the UncompressedChunk given to encode_chunk
    c_enc,      \* what encode_chunk did
    c_args,     \* the bytes and the nelements given to decode_chunk
    c_dec       \* what decode_chunk did

varsChunk == <<c_pc, c_len, c_in, c_enc, c_args, c_dec>>

VARIABLES
    r_pc,       \* "call" or "done"
    r_header,   \* the header given to the reorder helper
    r_fn,       \* the helper called: "chunk" or "time"
    r_out,      \* the out chunk before the call
    r_ret       \* the value returned and the out chunk after the call

varsReorder == <<r_pc, r_header, r_fn, r_out, r_ret>>

VARIABLES
    b_cap,      \* size of the buffer
    b_work,     \* the workload the samples are drawn from
    b_pc,       \* "write" or "read"
    b_w,        \* the DataBlockWriter
    b_puts,     \* one record per put call, in order
    b_failed,   \* the assertions that failed so far
    b_panic,    \* commit raised AKU_PANIC
    b_size,     \* what commit returned
    b_r,        \* the DataBlockReader
    b_reads,    \* one record per next call, in order
    b_commits   \* one record per commit call after which the writer was used again

varsBlock ==
    <<b_cap, b_work, b_pc, b_w, b_puts, b_failed, b_panic, b_size, b_r, b_reads, b_commits>>

VARIABLES
    v_pc,       \* "encode", "decode", "done"
    v_diff,     \* the diff given to encode_value
    v_s,        \* the stream encode_value wrote
    v_ok,       \* what encode_value returned
    v_dec       \* what decode_value returned

varsValue == <<v_pc, v_diff, v_s, v_ok, v_dec>>

VARIABLES
    t_pc,       \* "call" or "done"
    t_cap,      \* size of the region of the stream
    t_values,   \* the values given to tput
    t_w,        \* the FcmStreamWriter
    t_s,        \* its stream
    t_ok        \* what tput returned

varsTput == <<t_pc, t_cap, t_values, t_w, t_s, t_ok>>

vars == <<varsFcm, varsChunk, varsReorder, varsBlock, varsValue, varsTput>>

\* ===================================================== the double codec run
\* A client puts values into an FcmStreamWriter and commits, encodes the same
\* input with compress_doubles, then decodes one of the two encodings with
\* FcmStreamReader::next and with decompress_doubles.

\* bit patterns of 0.0, -0.0, 1.0, a NaN with a payload, a denormal
FcmValues ==
    { Zero64,
      <<0, 0, 0, 0, 0, 0, 0, 128>>,
      <<0, 0, 0, 0, 0, 0, 240, 63>>,
      <<1, 0, 0, 0, 0, 0, 248, 255>>,
      <<154, 120, 86, 52, 18, 0, 0, 0>> }

\* a region that holds any run, and one that holds a single short pair
FcmCaps == {WorstCaseBytes(MaxVals + 1), 5}

\* the data block run's variables are left alone
OnlyFcm == UNCHANGED <<varsChunk, varsReorder, varsBlock, varsValue, varsTput>>

InitFcm ==
    /\ f_cap \in FcmCaps
    /\ f_pc = "put"
    /\ f_in = <<>>
    /\ f_w = NewFcmWriter
    /\ f_s = NewWriter(f_cap)
    /\ f_ok = TRUE
    /\ f_batch = NewWriter(f_cap)
    /\ f_src = "none"
    /\ f_r = NewFcmReader
    /\ f_rs = NewReader(<<>>, 0)
    /\ f_out = <<>>
    /\ f_rok = TRUE
    /\ f_dec = <<>>
    /\ f_commits = <<>>

FcmWriterPut(v) ==
    /\ OnlyFcm
    /\ f_pc = "put" /\ f_ok /\ Len(f_in) < MaxVals
    /\ \E r \in {FcmPut(f_w, f_s, v)} :
          /\ f_w' = r.w
          /\ f_s' = r.s
          /\ f_ok' = r.ok
    /\ f_in' = Append(f_in, v)
    /\ UNCHANGED <<f_cap, f_pc, f_batch, f_src, f_r, f_rs, f_out, f_rok, f_dec,
                 f_commits>>

FcmWriterCommit ==
    /\ OnlyFcm
    /\ f_pc = "put" /\ f_ok
    /\ \E r \in {FcmCommit(f_w, f_s)} :
          /\ f_w' = r.w
          /\ f_s' = r.s
          /\ f_ok' = r.ok
    /\ f_pc' = "compress"
    /\ UNCHANGED <<f_cap, f_in, f_batch, f_src, f_r, f_rs, f_out, f_rok, f_dec,
                 f_commits>>

CompressDoubles ==
    /\ OnlyFcm
    /\ f_pc = "compress"
    /\ f_batch' = compress_doubles(f_in, NewWriter(f_cap)).s
    /\ f_pc' = "open"
    /\ UNCHANGED <<f_cap, f_in, f_w, f_s, f_ok, f_src, f_r, f_rs, f_out, f_rok, f_dec,
                 f_commits>>

FcmOpen(src) ==
    /\ OnlyFcm
    /\ f_pc = "open"
    /\ f_src' = src
    /\ f_r' = NewFcmReader
    /\ f_rs' = NewReader(IF src = "stream" THEN f_s.buf ELSE f_batch.buf, 0)
    /\ f_pc' = "read"
    /\ UNCHANGED <<f_cap, f_in, f_w, f_s, f_ok, f_batch, f_out, f_rok, f_dec,
                 f_commits>>

FcmReaderNext ==
    /\ OnlyFcm
    /\ f_pc = "read" /\ f_rok /\ Len(f_out) < Len(f_in)
    /\ \E x \in {FcmNext(f_r, f_rs)} :
          /\ f_r' = x.f
          /\ f_rs' = x.r
          /\ f_rok' = x.ok
          /\ f_out' = IF x.ok THEN Append(f_out, x.val) ELSE f_out
    /\ UNCHANGED <<f_cap, f_pc, f_in, f_w, f_s, f_ok, f_batch, f_src, f_dec,
                 f_commits>>

DecompressDoubles ==
    /\ OnlyFcm
    /\ f_pc = "read" /\ (~f_rok \/ Len(f_out) = Len(f_in))
    /\ f_dec' = <<DecompressLoop(NewReader(f_rs.data, 0), Len(f_in), 0, NewPredictor, 0,
                                 <<>>, Len(f_in))>>
    /\ f_pc' = "done"
    /\ UNCHANGED <<f_cap, f_in, f_w, f_s, f_ok, f_batch, f_src, f_r, f_rs, f_out, f_rok,
                 f_commits>>

\* commit, after which the writer takes further values
FcmWriterFlush ==
    /\ OnlyFcm
    /\ f_pc = "put" /\ f_ok /\ Len(f_commits) < MaxCommits
    /\ \E r \in {FcmCommit(f_w, f_s)} :
          /\ f_w' = r.w
          /\ f_s' = r.s
          /\ f_ok' = r.ok
          /\ f_commits' = Append(f_commits, [at |-> Len(f_in), size |-> Len(r.s.buf)])
    /\ UNCHANGED <<f_cap, f_pc, f_in, f_batch, f_src, f_r, f_rs, f_out, f_rok, f_dec>>

\* a reader is opened on the stream once its last values are committed
FcmOpenCommitted ==
    /\ OnlyFcm
    /\ f_pc = "put" /\ f_ok
    /\ f_commits # <<>> /\ f_commits[Len(f_commits)].at = Len(f_in)
    /\ f_src' = "stream"
    /\ f_r' = NewFcmReader
    /\ f_rs' = NewReader(f_s.buf, 0)
    /\ f_pc' = "read"
    /\ UNCHANGED <<f_cap, f_in, f_w, f_s, f_ok, f_batch, f_out, f_rok, f_dec, f_commits>>

NextFcm ==
    \/ \E v \in FcmValues : FcmWriterPut(v)
    \/ FcmWriterCommit
    \/ CompressDoubles
    \/ \E src \in {"stream", "batch"} : FcmOpen(src)
    \/ FcmReaderNext
    \/ DecompressDoubles

\* the writer, used on after its commits, and a reader of its stream
NextFcmReuse ==
    \/ \E v \in FcmValues : FcmWriterPut(v)
    \/ FcmWriterFlush
    \/ FcmOpenCommitted
    \/ FcmReaderNext

\* ============================================================ data block
\* DataBlockWriter is [stream_, ts_stream_, val_stream_, write_index_,
\* ts_writebuf_, val_writebuf_]; nchunks_ and ntail_ are the u16 placeholders at
\* offsets 2 and 4 of the buffer.  DataBlockReader is [begin_, stream_,
\* ts_stream_, val_stream_, read_buffer_, read_index_].

\* x & CHUNK_MASK is written x % CHUNK_SIZE
CHUNK_SIZE == 16

HEADER_SIZE == 14

AKUMULI_VERSION == 101

\* 10*16 + 9*16
MARGIN == 304

NCHUNKS_AT == 2

NTAIL_AT == 4

ntail(stream) == RdLE16(stream.buf, NTAIL_AT)

nchunks(stream) == RdLE16(stream.buf, NCHUNKS_AT)

\* the writer after its constructor, for a buffer that holds the header:
\* version, the two placeholders, the series id
NewDataBlockWriter(id, size) ==
    The({ [stream_ |-> s,
           ts_stream_ |-> NewDeltaRLEWriter(s),
           val_stream_ |-> NewFcmWriter,
           write_index_ |-> 0,
           ts_writebuf_ |-> [i \in 1..CHUNK_SIZE |-> Zero64],
           val_writebuf_ |-> [i \in 1..CHUNK_SIZE |-> Zero64]] :
          s \in {[buf |-> LE16(AKUMULI_VERSION) \o <<0, 0>> \o <<0, 0>> \o id, cap |-> size]} })

RoomForPair(w) == IF space_left(w.stream_) < 16 THEN FALSE ELSE TRUE

room_for_chunk(w) == IF space_left(w.stream_) < MARGIN THEN FALSE ELSE TRUE

\* *ntail_ += 1
IncNtail(stream) == patch(stream, NTAIL_AT, LE16((ntail(stream) + 1) % 65536))

\* the flush of a full chunk: timestamps, then values
FlushChunk(w) ==
    The({ IF ~a.ok
          THEN [status |-> AKU_EOVERFLOW, failed |-> {"flush"},
                w |-> [w EXCEPT !.ts_stream_ = a.w, !.stream_ = a.s]]
          ELSE The({ [status |-> IF b.ok THEN AKU_SUCCESS ELSE AKU_EOVERFLOW,
                      failed |-> IF b.ok THEN {} ELSE {"flush"},
                      w |-> [w EXCEPT !.ts_stream_ = a.w, !.val_stream_ = b.w,
                                      !.stream_ = b.s]] :
                     b \in {FcmTput(w.val_stream_, a.s, w.val_writebuf_)} }) :
          a \in {DeltaRLETput(w.ts_stream_, w.stream_, w.ts_writebuf_)} })

\* the tail path of put: the sample appended raw
PutTail(w, ts, value, failed) ==
    The({ IF ~a.ok THEN [status |-> AKU_EOVERFLOW, failed |-> failed, w |-> w]
          ELSE The({ IF ~b.ok
                     THEN [status |-> AKU_EOVERFLOW, failed |-> failed,
                           w |-> [w EXCEPT !.stream_ = a.s]]
                     ELSE [status |-> AKU_SUCCESS, failed |-> failed,
                           w |-> [w EXCEPT !.stream_ = IncNtail(b.s)]] :
                     b \in {put_raw(a.s, value)} }) :
          a \in {put_raw(w.stream_, ts)} })

PutFlushEarly(w, ts, value) ==
    IF room_for_chunk(w)
    THEN The({ IF w.write_index_ % CHUNK_SIZE = 0
               THEN FlushChunk(w1)
               ELSE [status |-> AKU_SUCCESS, failed |-> {}, w |-> w1] :
               w1 \in {[w EXCEPT !.ts_writebuf_[(w.write_index_ % CHUNK_SIZE) + 1] = ts,
                                 !.val_writebuf_[(w.write_index_ % CHUNK_SIZE) + 1] = value,
                                 !.write_index_ = @ + 1]} })
    ELSE PutTail(w, ts, value, IF w.write_index_ % CHUNK_SIZE = 0 THEN {} ELSE {"tail"})

\* put(ts, value): the status returned, the writer after the call and the
\* assertion that failed in it, if one did
put(w, ts, value) ==
    IF room_for_chunk(w)
    THEN The({ IF w1.write_index_ % CHUNK_SIZE = 0
               THEN FlushChunk(w1)
               ELSE [status |-> AKU_SUCCESS, failed |-> {}, w |-> w1] :
               w1 \in {[w EXCEPT !.ts_writebuf_[(w.write_index_ % CHUNK_SIZE) + 1] = ts,
                                 !.val_writebuf_[(w.write_index_ % CHUNK_SIZE) + 1] = value,
                                 !.write_index_ = @ + 1]} })
    ELSE PutTail(w, ts, value, IF w.write_index_ % CHUNK_SIZE = 0 THEN {} ELSE {"tail"})

\* one round of the loop of commit: both writes are made, then checked
CommitOne(w, stream, ix) ==
    The({ The({ [ok |-> b.ok /\ a.ok, s |-> b.s] :
                b \in {put_raw(a.s, w.val_writebuf_[ix + 1])} }) :
          a \in {put_raw(stream, w.ts_writebuf_[ix + 1])} })

RECURSIVE CommitTail(_, _, _, _)
\* the loop of commit over the staged samples: the stream and whether a write
\* was rejected
CommitTail(w, stream, ix, buftail) ==
    IF ix >= buftail THEN [ok |-> TRUE, s |-> stream]
    ELSE The({ IF ~x.ok THEN x
               ELSE The({ CommitTail(w, s1, ix + 1, buftail) : s1 \in {IncNtail(x.s)} }) :
               x \in {CommitOne(w, stream, ix)} })

\* commit(): the size returned, the writer after the call, the assertion that
\* failed, and whether AKU_PANIC was raised (then nothing is returned)
commit(w) ==
    The({ IF buftail # 0 /\ ntail(w.stream_) # 0
          THEN [panic |-> TRUE, failed |-> {}, size |-> 0, w |-> w]
          ELSE The({ [panic |-> FALSE,
                      failed |-> (IF t.ok THEN {} ELSE {"commit"})
                                 \cup (IF n <= 65535 THEN {} ELSE {"nchunks"}),
                      size |-> stream_size(t.s),
                      w |-> [w EXCEPT !.stream_ = patch(t.s, NCHUNKS_AT, LE16(n % 65536))]] :
                     t \in {IF buftail # 0 THEN CommitTail(w, w.stream_, 0, buftail)
                            ELSE [ok |-> TRUE, s |-> w.stream_]} }) :
          n \in {w.write_index_ \div CHUNK_SIZE},
          buftail \in {w.write_index_ % CHUNK_SIZE} })

\* the reader after its constructor over buf[0 .. bufsize)
NewDataBlockReader(buf) ==
    [begin_ |-> buf,
     stream_ |-> NewReader(buf, HEADER_SIZE),
     ts_stream_ |-> NewDeltaRLEReader,
     val_stream_ |-> NewFcmReader,
     read_buffer_ |-> [i \in 1..CHUNK_SIZE |-> Zero64],
     read_index_ |-> 0]

get_main_size(pdata) == RdLE16(pdata, NCHUNKS_AT) * CHUNK_SIZE

get_total_size(pdata) == RdLE16(pdata, NTAIL_AT) + RdLE16(pdata, NCHUNKS_AT) * CHUNK_SIZE

nelements(r) == get_total_size(r.begin_)

\* on entering a chunk, its CHUNK_SIZE timestamps are read into read_buffer_
FillReadBuffer(r) ==
    IF r.read_index_ % CHUNK_SIZE = 0
    THEN The({ [ok |-> t.ok,
                r |-> [r EXCEPT !.ts_stream_ = t.d, !.stream_ = t.r,
                                !.read_buffer_ = [i \in 1..CHUNK_SIZE |->
                                    IF i <= Len(t.vals) THEN t.vals[i] ELSE @[i]]]] :
               t \in {DeltaRLENextN(r.ts_stream_, r.stream_, CHUNK_SIZE)} })
    ELSE [ok |-> TRUE, r |-> r]

\* a sample of a compressed chunk
NextInChunk(r) ==
    The({ IF ~t.ok
          THEN [status |-> THROWN, ts |-> Zero64, value |-> Zero64,
                r |-> [t.r EXCEPT !.read_index_ = @ + 1]]
          ELSE The({ [status |-> IF v.ok THEN AKU_SUCCESS ELSE THROWN,
                      ts |-> IF v.ok THEN t.r.read_buffer_[(r.read_index_ % CHUNK_SIZE) + 1]
                             ELSE Zero64,
                      value |-> v.val,
                      r |-> [t.r EXCEPT !.read_index_ = @ + 1, !.val_stream_ = v.f,
                                        !.stream_ = v.r]] :
                     v \in {FcmNext(t.r.val_stream_, t.r.stream_)} }) :
          t \in {FillReadBuffer(r)} })

\* a raw sample of the tail
NextInTail(r) ==
    The({ IF ~a.ok
          THEN [status |-> THROWN, ts |-> Zero64, value |-> Zero64,
                r |-> [r EXCEPT !.read_index_ = @ + 1]]
          ELSE The({ IF ~b.ok
                     THEN [status |-> THROWN, ts |-> Zero64, value |-> Zero64,
                           r |-> [r EXCEPT !.read_index_ = @ + 1, !.stream_ = a.r]]
                     ELSE [status |-> AKU_SUCCESS, ts |-> a.val, value |-> b.val,
                           r |-> [r EXCEPT !.read_index_ = @ + 1, !.stream_ = b.r]] :
                     b \in {read_raw(a.r, 8)} }) :
          a \in {read_raw(r.stream_, 8)} })

\* next(): the tuple returned (status THROWN when a read ran out of data) and
\* the reader after the call
next(r) ==
    IF r.read_index_ < get_main_size(r.begin_) THEN NextInChunk(r)
    ELSE IF r.read_index_ < get_total_size(r.begin_) THEN NextInTail(r)
    ELSE [status |-> AKU_ENO_DATA, ts |-> Zero64, value |-> Zero64, r |-> r]

\* ======================================================= the data block run
\* A client builds a DataBlockWriter over a buffer of b_cap bytes, puts the
\* samples of a workload one by one, commits, and then reads the buffer back
\* with a DataBlockReader until it is exhausted and a little longer.

SeriesId == U64FromNat(42)

\* bit patterns of 0.5, 1.0, 1.5, -0.0, 3.14, 0.0 and a NaN with a payload
MixedValues ==
    << <<0, 0, 0, 0, 0, 0, 224, 63>>,
       <<0, 0, 0, 0, 0, 0, 240, 63>>,
       <<0, 0, 0, 0, 0, 0, 248, 63>>,
       <<0, 0, 0, 0, 0, 0, 0, 128>>,
       <<31, 133, 235, 81, 184, 30, 9, 64>>,
       Zero64,
       <<1, 0, 0, 0, 0, 0, 248, 255>> >>

\* timestamps that grow by one
RisingTs(n) == U64FromNat(n)

\* timestamps that fall by a step that grows: every delta is a different
\* word with its top bit set
FallingTs(n) == U64Sub(Zero64, U64FromNat(((n + 1) * (n + 2)) \div 2))

FlatTs(n) == U64FromNat(1000)

MixedValue(n) == MixedValues[(n % Len(MixedValues)) + 1]

\* values whose xor with zero and with each other has no zero byte at either end
NoisyValue(n) == <<1 + n, 0, 0, 0, 0, 0, 0, 65 + n>>

FlatValue(n) == <<0, 0, 0, 0, 0, 0, 240, 63>>

Workloads == {"regular", "worst", "flat", "dense"}

\* the n-th sample (n = 0, 1, ...) of a workload
Sample(work, n) ==
    CASE work = "regular" -> [ts |-> RisingTs(n), value |-> MixedValue(n)]
      [] work = "worst" -> [ts |-> FallingTs(n), value |-> NoisyValue(n)]
      [] work = "flat" -> [ts |-> FlatTs(n), value |-> FlatValue(n)]
      [] work = "dense" -> [ts |-> RisingTs(n), value |-> NoisyValue(n)]

\* a buffer with room for two raw samples and a half, one with exactly MARGIN
\* bytes after the header, and one with room for a worst-case value chunk more
BlockSizes == {HEADER_SIZE + 40, HEADER_SIZE + MARGIN, HEADER_SIZE + MARGIN + 140}

OnlyBlock == UNCHANGED <<varsFcm, varsChunk, varsReorder, varsValue, varsTput>>

InitBlock ==
    /\ b_cap \in BlockSizes
    /\ b_work \in Workloads
    /\ b_pc = "write"
    /\ b_w = NewDataBlockWriter(SeriesId, b_cap)
    /\ b_puts = <<>>
    /\ b_failed = {}
    /\ b_panic = FALSE
    /\ b_size = 0
    /\ b_r = NewDataBlockReader(<<>>)
    /\ b_reads = <<>>
    /\ b_commits = <<>>

BlockPut ==
    /\ OnlyBlock
    /\ b_pc = "write" /\ Len(b_puts) < MaxPuts
    /\ \E smp \in {Sample(b_work, Len(b_puts))} : \E x \in {put(b_w, smp.ts, smp.value)} :
          /\ b_w' = x.w
          /\ b_failed' = b_failed \cup x.failed
          /\ b_puts' = Append(b_puts,
                 [ts |-> smp.ts, value |-> smp.value, status |-> x.status,
                  room |-> room_for_chunk(b_w),
                  space |-> space_left(b_w.stream_),
                  ntail_before |-> ntail(b_w.stream_),
                  ntail_after |-> ntail(x.w.stream_),
                  nchunks_before |-> nchunks(b_w.stream_),
                  nchunks_after |-> nchunks(x.w.stream_),
                  index_before |-> b_w.write_index_,
                  index_after |-> x.w.write_index_,
                  size_before |-> stream_size(b_w.stream_),
                  size_after |-> stream_size(x.w.stream_)])
    /\ UNCHANGED <<b_cap, b_work, b_pc, b_panic, b_size, b_r, b_reads, b_commits>>

\* the buffer of b_cap bytes handed to the reader: what the writer wrote, and
\* zeroes where it wrote nothing
Buffer(stream) == [i \in 1..stream.cap |-> IF i <= Len(stream.buf) THEN stream.buf[i] ELSE 0]

BlockCommit ==
    /\ OnlyBlock
    /\ b_pc = "write"
    /\ \E x \in {commit(b_w)} :
          /\ b_w' = x.w
          /\ b_failed' = b_failed \cup x.failed
          /\ b_panic' = x.panic
          /\ b_size' = x.size
          /\ b_r' = NewDataBlockReader(Buffer(x.w.stream_))
    /\ b_pc' = "read"
    /\ UNCHANGED <<b_cap, b_work, b_puts, b_reads, b_commits>>

BlockNext ==
    /\ OnlyBlock
    /\ b_pc = "read" /\ ~b_panic
    /\ Len(b_reads) < nelements(b_r) + MaxExtraReads
    /\ \E x \in {next(b_r)} :
          /\ b_r' = x.r
          /\ b_reads' = Append(b_reads,
                 [status |-> x.status, ts |-> x.ts, value |-> x.value,
                  index_before |-> b_r.read_index_, index_after |-> x.r.read_index_,
                  pos_before |-> b_r.stream_.pos, pos_after |-> x.r.stream_.pos])
    /\ UNCHANGED <<b_cap, b_work, b_pc, b_w, b_puts, b_failed, b_panic, b_size, b_commits>>

NextBlock ==
    \/ BlockPut
    \/ BlockCommit
    \/ BlockNext

\* ------------------------------------------------- the writer, used on
\* A client that goes on using the writer after commit(): it puts and commits
\* in any order, until a commit panics.

ReusePut ==
    /\ Len(b_puts) < MaxReusePuts
    /\ ~b_panic
    /\ BlockPut

ReuseCommit ==
    /\ OnlyBlock
    /\ b_pc = "write" /\ ~b_panic /\ Len(b_commits) < MaxCommits
    /\ \E x \in {commit(b_w)} :
          /\ b_w' = x.w
          /\ b_failed' = b_failed \cup x.failed
          /\ b_panic' = x.panic
          /\ b_size' = x.size
          /\ b_commits' = Append(b_commits,
                 [at |-> Len(b_puts), panic |-> x.panic, size |-> x.size,
                  ntail_after |-> ntail(x.w.stream_),
                  nchunks_after |-> nchunks(x.w.stream_),
                  buf_after |-> x.w.stream_.buf])
    /\ UNCHANGED <<b_cap, b_work, b_pc, b_puts, b_r, b_reads>>

NextReuse ==
    \/ ReusePut
    \/ ReuseCommit

\* ====================================================== the chunk codec run
\* A client encodes an UncompressedChunk into the range of a ChunkWriter, then
\* hands the bytes committed, as they are or damaged, to decode_chunk.

\* rows (paramid, timestamp, value): 1.0, a NaN with a payload, -0.0 and 3.14
ChunkRows ==
    { <<U64FromNat(1), U64FromNat(10), <<0, 0, 0, 0, 0, 0, 240, 63>> >>,
      <<U64FromNat(1), U64FromNat(5), <<1, 0, 0, 0, 0, 0, 248, 255>> >>,
      <<U64FromNat(2), U64FromNat(10), <<0, 0, 0, 0, 0, 0, 0, 128>> >>,
      <<U64FromNat(2), U64FromNat(700), <<31, 133, 235, 81, 184, 30, 9, 64>> >> }

RowSeqs(rows, n) == UNION { [1..k -> rows] : k \in 0..n }

ChunkOf(rows) ==
    [paramids |-> [i \in 1..Len(rows) |-> rows[i][1]],
     timestamps |-> [i \in 1..Len(rows) |-> rows[i][2]],
     values |-> [i \in 1..Len(rows) |-> rows[i][3]]]

\* a range that holds any chunk, one that holds the streams of a short chunk
\* but not its values, and one too short for the first length prefix
RangeLengths == {8 + 24 * (MaxChunkLen + 1), 8 + 22, 8 + 2}

OnlyChunk == UNCHANGED <<varsFcm, varsReorder, varsBlock, varsValue, varsTput>>

InitChunk ==
    /\ c_pc = "encode"
    /\ c_len \in RangeLengths
    /\ c_in \in { ChunkOf(rows) : rows \in RowSeqs(ChunkRows, MaxChunkLen) }
    /\ c_enc = 0
    /\ c_args = 0
    /\ c_dec = 0

ChunkEncode ==
    /\ c_pc = "encode"
    /\ \E on_null \in {"crash", "lost"} : c_enc' = encode_chunk(c_in, c_len, on_null)
    /\ c_pc' = "decode"
    /\ UNCHANGED <<c_len, c_in, c_args, c_dec>>
    /\ OnlyChunk

\* the committed bytes: intact, with the nblocks field one less or one more,
\* or without their last byte
Damaged(enc, how) ==
    The({ IF how = "cut" /\ Len(enc.bytes) > 0
          THEN SubSeq(enc.bytes, 1, Len(enc.bytes) - 1)
          ELSE IF how = "fewer" /\ at + 4 <= Len(enc.bytes) /\ enc.bytes[at + 1] > 0
          THEN [enc.bytes EXCEPT ![at + 1] = @ - 1]
          ELSE IF how = "more" /\ at + 4 <= Len(enc.bytes)
          THEN [enc.bytes EXCEPT ![at + 1] = @ + 1]
          ELSE enc.bytes :
          at \in {enc.nblocks_at} })

ChunkDecode ==
    /\ c_pc = "decode"
    /\ c_enc.committed
    /\ \E how \in {"none", "fewer", "more", "cut"} :
       \E n \in {Len(c_in.paramids) - 1, Len(c_in.paramids), Len(c_in.paramids) + 1} \ {-1} :
       \E bytes \in {Damaged(c_enc, how)} :
          /\ c_args' = [bytes |-> bytes, nelements |-> n, how |-> how]
          /\ c_dec' = decode_chunk(bytes, n)
    /\ c_pc' = "done"
    /\ UNCHANGED <<c_len, c_in, c_enc>>
    /\ OnlyChunk

NextChunk ==
    \/ ChunkEncode
    \/ ChunkDecode

\* ========================================================= the reorder run
\* A client calls one of the two reorder helpers on a header and an out chunk.

\* rows (paramid, timestamp); the value of a row is its position in the header,
\* which tells rows with equal keys apart
ReorderKeys == {1, 2} \X {5, 10}

HeaderOf(keys) ==
    [paramids |-> [i \in 1..Len(keys) |-> U64FromNat(keys[i][1])],
     timestamps |-> [i \in 1..Len(keys) |-> U64FromNat(keys[i][2])],
     values |-> [i \in 1..Len(keys) |-> U64FromNat(i - 1)]]

\* the header with one array longer than the others
Uneven(header, which) ==
    IF which = "paramids" THEN [header EXCEPT !.paramids = Append(@, U64FromNat(1))]
    ELSE IF which = "timestamps" THEN [header EXCEPT !.timestamps = Append(@, U64FromNat(5))]
    ELSE IF which = "values" THEN [header EXCEPT !.values = Append(@, Zero64)]
    ELSE header

EmptyChunk == [paramids |-> <<>>, timestamps |-> <<>>, values |-> <<>>]

OnlyReorder == UNCHANGED <<varsFcm, varsChunk, varsBlock, varsValue, varsTput>>

InitReorder ==
    /\ r_pc = "call"
    /\ r_header \in { Uneven(HeaderOf(keys), which) :
                        keys \in RowSeqs(ReorderKeys, MaxRows),
                        which \in {"none", "paramids", "timestamps", "values"} }
    /\ r_out \in {EmptyChunk, ChunkOf(<< <<U64FromNat(9), U64FromNat(9), U64FromNat(9)>> >>)}
    /\ r_fn = "none"
    /\ r_ret = 0

ConvertFromChunkOrder ==
    /\ r_pc = "call"
    /\ r_ret' = convert_from_chunk_order(r_header, r_out)
    /\ r_fn' = "chunk"
    /\ r_pc' = "done"
    /\ UNCHANGED <<r_header, r_out>>
    /\ OnlyReorder

ConvertFromTimeOrder ==
    /\ r_pc = "call"
    /\ r_ret' = convert_from_time_order(r_header, r_out)
    /\ r_fn' = "time"
    /\ r_pc' = "done"
    /\ UNCHANGED <<r_header, r_out>>
    /\ OnlyReorder

NextReorder ==
    \/ ConvertFromChunkOrder
    \/ ConvertFromTimeOrder

\* ======================================================= the value run
\* A diff is encoded by encode_value under the flag put selects for it, and
\* the bytes written are decoded by decode_value under the same flag.

\* bytes at the ends of the non-zero part of a diff
EdgeBytes == {1, 128, 255}

\* the diff whose non-zero bytes are lo .. hi: a at lo, b at hi, 171 between
DiffOf(lo, hi, a, b) ==
    [i \in 1..8 |-> IF i < lo \/ i > hi THEN 0
                    ELSE IF i = hi THEN b
                    ELSE IF i = lo THEN a
                    ELSE 171]

\* zero, and diffs with every number of zero bytes at either end
Diffs ==
    {Zero64} \cup { DiffOf(lo, hi, a, b) : lo \in 1..8, hi \in 1..8, a \in EdgeBytes,
                                           b \in EdgeBytes }

OnlyValue == UNCHANGED <<varsFcm, varsChunk, varsReorder, varsBlock, varsTput>>

InitValue ==
    /\ v_pc = "encode"
    /\ v_diff \in Diffs
    /\ v_s = NewWriter(8)
    /\ v_ok = TRUE
    /\ v_dec = 0

EncodeValue ==
    /\ v_pc = "encode"
    /\ \E r \in {encode_value(v_s, v_diff, SelectFlag(v_diff))} :
          /\ v_s' = r.s
          /\ v_ok' = r.ok
    /\ v_pc' = "decode"
    /\ UNCHANGED <<v_diff, v_dec>>
    /\ OnlyValue

DecodeValue ==
    /\ v_pc = "decode"
    /\ v_dec' = decode_value(NewReader(v_s.buf, 0), SelectFlag(v_diff))
    /\ v_pc' = "done"
    /\ UNCHANGED <<v_diff, v_s, v_ok>>
    /\ OnlyValue

NextValue ==
    \/ EncodeValue
    \/ DecodeValue

\* ======================================================== the tput run
\* A client hands a sequence of values to tput of a new FcmStreamWriter.

\* a region that holds no byte, a flag byte and one short diff, a short pair,
\* one long pair but not its tail, and any run
TputCaps == {0, 2, 5, 20, WorstCaseBytes(MaxTput + 1)}

TputInputs == UNION { [1..k -> FcmValues] : k \in 0..MaxTput }

OnlyTput == UNCHANGED <<varsFcm, varsChunk, varsReorder, varsBlock, varsValue>>

InitTput ==
    /\ t_pc = "call"
    /\ t_cap \in TputCaps
    /\ t_values \in TputInputs
    /\ t_w = NewFcmWriter
    /\ t_s = NewWriter(t_cap)
    /\ t_ok = TRUE

Tput ==
    /\ t_pc = "call"
    /\ \E r \in {FcmTput(t_w, t_s, t_values)} :
          /\ t_w' = r.w
          /\ t_s' = r.s
          /\ t_ok' = r.ok
    /\ t_pc' = "done"
    /\ UNCHANGED <<t_cap, t_values>>
    /\ OnlyTput

NextTput == Tput

\* ====================================================== the specifications
\* Each run has its own variables; the variables of the other runs stay idle.

IdleFcm ==
    /\ f_cap = 0 /\ f_pc = "idle" /\ f_in = <<>> /\ f_w = 0 /\ f_s = 0 /\ f_ok = TRUE
    /\ f_batch = 0 /\ f_src = "none" /\ f_r = 0 /\ f_rs = 0 /\ f_out = <<>>
    /\ f_rok = TRUE /\ f_dec = <<>> /\ f_commits = <<>>

IdleBlock ==
    /\ b_cap = 0 /\ b_work = "none" /\ b_pc = "idle" /\ b_w = 0 /\ b_puts = <<>>
    /\ b_failed = {} /\ b_panic = FALSE /\ b_size = 0 /\ b_r = 0 /\ b_reads = <<>>
    /\ b_commits = <<>>

IdleChunk ==
    /\ c_pc = "idle" /\ c_len = 0 /\ c_in = 0 /\ c_enc = 0 /\ c_args = 0 /\ c_dec = 0

IdleReorder ==
    /\ r_pc = "idle" /\ r_header = 0 /\ r_fn = "none" /\ r_out = 0 /\ r_ret = 0

IdleValue ==
    /\ v_pc = "idle" /\ v_diff = 0 /\ v_s = 0 /\ v_ok = TRUE /\ v_dec = 0

IdleTput ==
    /\ t_pc = "idle" /\ t_cap = 0 /\ t_values = <<>> /\ t_w = 0 /\ t_s = 0 /\ t_ok = TRUE

Init == InitBlock /\ IdleFcm /\ IdleChunk /\ IdleReorder /\ IdleValue /\ IdleTput

Next == NextBlock

\* the data block run
Spec == Init /\ [][Next]_vars

\* the data block run of a client that uses the writer after commit()
SpecReuse == Init /\ [][NextReuse]_vars

\* the tput run
BeginTput == InitTput /\ IdleFcm /\ IdleChunk /\ IdleReorder /\ IdleBlock /\ IdleValue

SpecTput == BeginTput /\ [][NextTput]_vars

\* the value run
BeginValue == InitValue /\ IdleFcm /\ IdleChunk /\ IdleReorder /\ IdleBlock /\ IdleTput

SpecValue == BeginValue /\ [][NextValue]_vars

\* the double codec run
BeginFcm == InitFcm /\ IdleChunk /\ IdleReorder /\ IdleBlock /\ IdleValue /\ IdleTput

SpecFcm == BeginFcm /\ [][NextFcm]_vars

SpecFcmReuse == BeginFcm /\ [][NextFcmReuse]_vars

\* the chunk codec run
BeginChunk == InitChunk /\ IdleFcm /\ IdleReorder /\ IdleBlock /\ IdleValue /\ IdleTput

SpecChunk == BeginChunk /\ [][NextChunk]_vars

\* the reorder run
BeginReorder == InitReorder /\ IdleFcm /\ IdleChunk /\ IdleBlock /\ IdleValue /\ IdleTput

SpecReorder == BeginReorder /\ [][NextReorder]_vars

\* ================================================================== claims

\* the samples whose put returned AKU_SUCCESS, in the order put was called
RECURSIVE Accepted(_)
Accepted(puts) ==
    IF puts = <<>> THEN <<>>
    ELSE IF puts[Len(puts)].status = AKU_SUCCESS
    THEN Append(Accepted(SubSeq(puts, 1, Len(puts) - 1)), puts[Len(puts)])
    ELSE Accepted(SubSeq(puts, 1, Len(puts) - 1))

Committed == b_pc = "read" /\ ~b_panic

\* C1: after commit the header satisfies nchunks * CHUNK_SIZE + ntail = the
\* number of put calls that returned AKU_SUCCESS.
C1_HeaderCountsAcceptedPuts ==
    Committed =>
        nchunks(b_w.stream_) * CHUNK_SIZE + ntail(b_w.stream_) = Len(Accepted(b_puts))

\* C2: after commit a reader returns from successive next() calls exactly the
\* samples whose put returned AKU_SUCCESS, in the order put was called, each
\* with status AKU_SUCCESS and the same bits, and nothing else.
C2_BlockRoundTrip ==
    Committed =>
        \A i \in 1..Len(b_reads) :
            IF i <= Len(Accepted(b_puts))
            THEN /\ b_reads[i].status = AKU_SUCCESS
                 /\ b_reads[i].ts = Accepted(b_puts)[i].ts
                 /\ b_reads[i].value = Accepted(b_puts)[i].value
            ELSE b_reads[i].status = AKU_ENO_DATA

\* C3: a put that flushes a full chunk (room_for_chunk() was true at that put)
\* finds both tput calls to succeed: the assert(false) after the flush is
\* never reached.
C3_CapacityOracle == "flush" \notin b_failed

\* C4: put returns AKU_EOVERFLOW exactly when room_for_chunk() is false and the
\* raw 16-byte pair does not fit; a put made while room_for_chunk() is true
\* returns AKU_SUCCESS, and a tail put with 16 bytes left returns AKU_SUCCESS
\* and adds one to ntail.
C4_OverflowOnlyOnTail ==
    \A i \in 1..Len(b_puts) :
        /\ b_puts[i].status = AKU_EOVERFLOW <=> (~b_puts[i].room /\ b_puts[i].space < 16)
        /\ b_puts[i].room => b_puts[i].status = AKU_SUCCESS
        /\ (~b_puts[i].room /\ b_puts[i].space >= 16) =>
               /\ b_puts[i].status = AKU_SUCCESS
               /\ b_puts[i].ntail_after = b_puts[i].ntail_before + 1

\* C10: next returns AKU_SUCCESS for exactly nelements() calls; every later
\* call returns (AKU_ENO_DATA, 0, 0.0), leaves read_index_ alone and consumes
\* no byte of the stream.
C10_ReaderExhaustion ==
    Committed =>
        \A i \in 1..Len(b_reads) :
            IF i <= nelements(b_r)
            THEN b_reads[i].status = AKU_SUCCESS
            ELSE /\ b_reads[i].status = AKU_ENO_DATA
                 /\ b_reads[i].ts = Zero64 /\ b_reads[i].value = Zero64
                 /\ b_reads[i].index_after = b_reads[i].index_before
                 /\ b_reads[i].pos_after = b_reads[i].pos_before

\* the encoder had enough space: the streaming writer accepted every put and
\* the commit, compress_doubles wrote as many bytes as into a region that holds
\* any encoding of the input
FcmFits ==
    IF f_src = "stream" THEN f_ok
    ELSE Len(f_batch.buf) =
             Len(compress_doubles(f_in, NewWriter(WorstCaseBytes(Len(f_in)))).s.buf)

\* C5: values encoded by put and commit, or by compress_doubles, into a stream
\* with enough space are decoded bit for bit, in order, by
\* FcmStreamReader::next and by decompress_doubles; no read runs out of data.
C5_DoubleRoundTrip ==
    (f_pc \in {"read", "done"} /\ FcmFits) =>
        /\ f_rok
        /\ f_out = SubSeq(f_in, 1, Len(f_out))
        /\ f_pc = "done" =>
               /\ f_out = f_in
               /\ f_dec[1].result = "ok"
               /\ f_dec[1].out = f_in

\* an odd number of values with -0.0 and a NaN among them, put and committed,
\* then decoded
C5_Witness ==
    /\ f_pc = "done" /\ f_src = "stream" /\ f_ok
    /\ Len(f_in) = 3
    /\ f_in[1] = <<1, 0, 0, 0, 0, 0, 248, 255>>
    /\ f_in[3] = <<0, 0, 0, 0, 0, 0, 0, 128>>
    /\ f_dec[1].out = f_in

Encoded == c_pc \in {"decode", "done"}

\* C6: when a write into the output stream of encode_chunk is rejected,
\* encode_chunk returns AKU_EOVERFLOW and does not commit the chunk.
C6_EncodeChunkOverflow ==
    (Encoded /\ c_enc.rejected) =>
        /\ c_enc.status = AKU_EOVERFLOW
        /\ ~c_enc.committed

\* C7: a chunk that fits the range is encoded with AKU_SUCCESS, n_elements its
\* length, ts_begin its least and ts_end its greatest timestamp; decode_chunk
\* of the bytes committed, with nelements its length, returns AKU_SUCCESS and a
\* header equal to the chunk.
C7_ChunkRoundTrip ==
    (Encoded /\ ~c_enc.rejected) =>
        /\ c_enc.status = AKU_SUCCESS
        /\ c_enc.committed
        /\ c_enc.n_elements = Len(c_in.paramids)
        /\ \A i \in 1..Len(c_in.timestamps) :
              /\ ~U64Less(c_in.timestamps[i], c_enc.ts_begin)
              /\ ~U64Less(c_enc.ts_end, c_in.timestamps[i])
        /\ Len(c_in.timestamps) > 0 =>
              /\ \E i \in 1..Len(c_in.timestamps) : c_in.timestamps[i] = c_enc.ts_begin
              /\ \E i \in 1..Len(c_in.timestamps) : c_in.timestamps[i] = c_enc.ts_end
        /\ (c_pc = "done" /\ c_args.how = "none"
                /\ c_args.nelements = Len(c_in.paramids)) =>
              /\ c_dec.status = AKU_SUCCESS
              /\ c_dec.header = c_in

\* a chunk of three rows, its timestamps out of order, encoded and decoded
C7_Witness ==
    /\ c_pc = "done" /\ ~c_enc.rejected
    /\ c_args.how = "none" /\ c_args.nelements = 3
    /\ Len(c_in.paramids) = 3
    /\ U64Less(c_in.timestamps[2], c_in.timestamps[1])
    /\ U64Less(c_in.timestamps[2], c_in.timestamps[3])
    /\ c_dec.status = AKU_SUCCESS

\* C8: decode_chunk returns AKU_EBAD_DATA when the nblocks field differs from
\* nelements, and AKU_SUCCESS only when nelements paramids, timestamps and
\* values were decoded.
C8_DecodeChunkBadData ==
    c_pc = "done" =>
        /\ (c_dec.nblocks # -1 /\ c_dec.nblocks # c_args.nelements) =>
               c_dec.status = AKU_EBAD_DATA
        /\ c_dec.status = AKU_SUCCESS =>
               /\ Len(c_dec.header.paramids) = c_args.nelements
               /\ Len(c_dec.header.timestamps) = c_args.nelements
               /\ c_dec.ndecoded = c_args.nelements

\* the key of row i of chunk h under the helper called
KeyOf(h, i) == IF r_fn = "chunk" THEN h.timestamps[i] ELSE h.paramids[i]

Even(h) == Len(h.timestamps) = Len(h.values) /\ Len(h.timestamps) = Len(h.paramids)

\* C9: on a header of three arrays of equal length and an empty out, a reorder
\* helper returns true and fills out with the rows of the header, each kept
\* together, non-decreasing in the key, rows of equal keys in their input order;
\* on arrays of different lengths it returns false and leaves out as it was.
C9_ReorderStable ==
    r_pc = "done" =>
        IF ~Even(r_header)
        THEN r_ret.ret = FALSE /\ r_ret.out = r_out
        ELSE r_out = EmptyChunk =>
            /\ r_ret.ret = TRUE
            /\ Len(r_ret.out.values) = Len(r_header.values)
            /\ Even(r_ret.out)
            /\ \A i \in 1..Len(r_header.values) :
                  \E j \in 1..Len(r_header.values) :
                      /\ r_ret.out.values[j] = r_header.values[i]
                      /\ r_ret.out.paramids[j] = r_header.paramids[i]
                      /\ r_ret.out.timestamps[j] = r_header.timestamps[i]
            /\ \A i, j \in 1..Len(r_header.values) :
                  i < j =>
                      /\ ~U64Less(KeyOf(r_ret.out, j), KeyOf(r_ret.out, i))
                      /\ KeyOf(r_ret.out, i) = KeyOf(r_ret.out, j) =>
                             U64Less(r_ret.out.values[i], r_ret.out.values[j])

\* three rows, the first and the last with the same timestamp and a smaller one
\* between them, converted from chunk order
C9_Witness ==
    /\ r_pc = "done" /\ r_fn = "chunk" /\ r_out = EmptyChunk
    /\ Even(r_header) /\ Len(r_header.values) = 3
    /\ r_header.timestamps[1] = r_header.timestamps[3]
    /\ U64Less(r_header.timestamps[2], r_header.timestamps[1])
    /\ r_ret.ret = TRUE

\* C11: while put calls are made, whenever room_for_chunk() is false the write
\* buffer is empty (write_index_ is a multiple of CHUNK_SIZE), and the
\* assertion on the tail path of put never fails.
C11_TailFindsBufferEmpty ==
    /\ "tail" \notin b_failed
    /\ (b_pc = "write" /\ ~room_for_chunk(b_w)) => b_w.write_index_ % CHUNK_SIZE = 0

\* a chunk was flushed, room_for_chunk() turned false and a tail put was made
C11_Witness ==
    /\ b_pc = "write" /\ ~room_for_chunk(b_w)
    /\ b_w.write_index_ = CHUNK_SIZE
    /\ ntail(b_w.stream_) > 0

\* the staged samples at commit: the puts made since the last full chunk
Staged(k) == b_puts[Len(b_puts) - (b_w.write_index_ % CHUNK_SIZE) + k]

\* the k-th raw pair at the end of the committed stream
RawPair(k) ==
    SubSeq(b_w.stream_.buf,
           b_size - 16 * ((b_w.write_index_ % CHUNK_SIZE) - k + 1) + 1,
           b_size - 16 * ((b_w.write_index_ % CHUNK_SIZE) - k))

\* C12: a commit() that finds the write buffer not empty finds ntail = 0, so it
\* does not panic, and appends every staged sample raw without a rejected
\* write, leaving ntail = buftail.
C12_CommitFlushNeverFails ==
    (b_pc = "read" /\ b_w.write_index_ % CHUNK_SIZE # 0) =>
        /\ ~b_panic
        /\ "commit" \notin b_failed
        /\ \A i \in 1..Len(b_puts) : b_puts[i].ntail_after = 0
        /\ ntail(b_w.stream_) = b_w.write_index_ % CHUNK_SIZE
        /\ b_size = stream_size(b_w.stream_)
        /\ \A k \in 1..(b_w.write_index_ % CHUNK_SIZE) :
               RawPair(k) = Staged(k).ts \o Staged(k).value

\* fifteen samples staged in a buffer with exactly MARGIN bytes free, committed
C12_Witness ==
    /\ b_pc = "read" /\ b_cap = HEADER_SIZE + MARGIN
    /\ b_w.write_index_ = CHUNK_SIZE - 1
    /\ ntail(b_w.stream_) = CHUNK_SIZE - 1

\* C13: whatever puts and commits are made, no compressed chunk is written to
\* the stream once a raw tail pair is in it (ntail > 0): a put that finds
\* ntail > 0 does not flush a chunk.
C13_ChunksBeforeTail ==
    \A i \in 1..Len(b_puts) :
        b_puts[i].ntail_before > 0 =>
            ~(/\ b_puts[i].room
              /\ b_puts[i].index_after % CHUNK_SIZE = 0
              /\ b_puts[i].size_after > b_puts[i].size_before)

\* C19: a commit() called right after a commit(), with no put between them,
\* does not panic, leaves nchunks, ntail and the stream as they were and
\* returns the same size.
C19_CommitIdempotent ==
    \A j \in 2..Len(b_commits) :
        b_commits[j].at = b_commits[j - 1].at =>
            /\ ~b_commits[j].panic
            /\ b_commits[j].nchunks_after = b_commits[j - 1].nchunks_after
            /\ b_commits[j].ntail_after = b_commits[j - 1].ntail_after
            /\ b_commits[j].buf_after = b_commits[j - 1].buf_after
            /\ b_commits[j].size = b_commits[j - 1].size

\* C18: a put that returns AKU_EOVERFLOW leaves write_index_, ntail, nchunks
\* and the size of the stream as they were before the call.
C18_OverflowPutChangesNothing ==
    \A i \in 1..Len(b_puts) :
        b_puts[i].status = AKU_EOVERFLOW =>
            /\ b_puts[i].index_after = b_puts[i].index_before
            /\ b_puts[i].ntail_after = b_puts[i].ntail_before
            /\ b_puts[i].nchunks_after = b_puts[i].nchunks_before
            /\ b_puts[i].size_after = b_puts[i].size_before

\* the bytes of an encoded diff: the (flag & 7) + 1 low bytes of the diff,
\* shifted right first when bit 3 of the flag is set
EncodedBytes(diff, flag) ==
    SubSeq(U64Shr(diff, (64 - ((flag % 8) + 1) * 8) * (flag \div 8)), 1, (flag % 8) + 1)

\* the diff of the value a put step appended to f_in
PutDiff == U64Xor(f_in'[Len(f_in')], predict_next(f_w.predictor))

PutStep == f_pc = "put" /\ f_pc' = "put" /\ Len(f_in') = Len(f_in) + 1 /\ f_ok'

CommitStep == f_pc = "put" /\ f_pc' = "compress" /\ f_ok'

ReadStep == f_pc = "read" /\ f_pc' = "read" /\ Len(f_out') = Len(f_out) + 1

\* C14: an accepted put of an even-indexed value writes nothing; of an
\* odd-indexed value it writes the byte (prev_flag << 4) | flag, the encoded
\* previous diff and the encoded diff.  commit writes a flag byte with a zero
\* low nibble, the encoded pending diff and a one-byte zero pad when an odd
\* number of values was put, and nothing otherwise.  next() reads a flag byte
\* on even read indices only.
C14_PairProtocol ==
    [][/\ PutStep =>
           IF Len(f_in) % 2 = 0 THEN f_s'.buf = f_s.buf
           ELSE f_s'.buf = f_s.buf
                    \o <<f_w.prev_flag * 16 + SelectFlag(PutDiff)>>
                    \o EncodedBytes(f_w.prev_diff, f_w.prev_flag)
                    \o EncodedBytes(PutDiff, SelectFlag(PutDiff))
       /\ CommitStep =>
           IF Len(f_in) % 2 = 1
           THEN f_s'.buf = f_s.buf \o <<f_w.prev_flag * 16>>
                    \o EncodedBytes(f_w.prev_diff, f_w.prev_flag) \o <<0>>
           ELSE f_s'.buf = f_s.buf
       /\ ReadStep =>
           IF Len(f_out) % 2 = 0
           THEN /\ f_r'.flags = f_rs.data[f_rs.pos + 1]
                /\ f_rs'.pos = f_rs.pos + 1 + ((f_r'.flags \div 16) % 8) + 1
           ELSE /\ f_r'.flags = f_r.flags
                /\ f_rs'.pos = f_rs.pos + (f_r.flags % 8) + 1
      ]_vars

\* three values put and committed: the stream ends with the flag byte of a
\* single value, its diff and the pad
C14_Witness ==
    /\ f_pc = "compress" /\ f_ok /\ Len(f_in) = 3
    /\ f_s.buf # <<>> /\ f_s.buf[Len(f_s.buf)] = 0
    /\ f_in[3] = <<1, 0, 0, 0, 0, 0, 248, 255>>

\* the zero bits at the ends of a diff, 64 for the zero diff
LeadingZeros(diff) == IF diff = Zero64 THEN 64 ELSE Clz(diff)

TrailingZeros(diff) == IF diff = Zero64 THEN 64 ELSE Ctz(diff)

\* max(0, 8 - zeros / 8 - 1)
BytesLessOne(zeros) == IF 8 - zeros \div 8 - 1 > 0 THEN 8 - zeros \div 8 - 1 ELSE 0

\* C15: the flag selected for a diff has bit 3 set iff trailing_zeros >
\* leading_zeros and low bits max(0, 8 - zeros/8 - 1); encode_value writes
\* (flag & 7) + 1 bytes under it and decode_value reads the diff back from them.
\* An empty input is encoded to no byte and decoded to no value.
C15_ValueLossless ==
    /\ v_pc \in {"decode", "done"} =>
           /\ SelectFlag(v_diff) \div 8 =
                  (IF TrailingZeros(v_diff) > LeadingZeros(v_diff) THEN 1 ELSE 0)
           /\ SelectFlag(v_diff) % 8 =
                  (IF TrailingZeros(v_diff) > LeadingZeros(v_diff)
                   THEN BytesLessOne(TrailingZeros(v_diff))
                   ELSE BytesLessOne(LeadingZeros(v_diff)))
           /\ v_ok
           /\ Len(v_s.buf) = (SelectFlag(v_diff) % 8) + 1
    /\ v_pc = "done" =>
           /\ v_dec.ok
           /\ v_dec.val = v_diff
           /\ v_dec.r.pos = Len(v_s.buf)
    /\ compress_doubles(<<>>, NewWriter(8)).s.buf = <<>>
    /\ FcmCommit(NewFcmWriter, NewWriter(8)).s.buf = <<>>
    /\ DecompressLoop(NewReader(<<>>, 0), 0, 0, NewPredictor, 0, <<>>, 0).out = <<>>

\* a diff with two zero bytes at the bottom and one at the top, stored from
\* its top: five bytes written and read back
C15_Witness ==
    /\ v_pc = "done"
    /\ v_diff = DiffOf(3, 7, 1, 128)
    /\ SelectFlag(v_diff) = 8 + 5
    /\ Len(v_s.buf) = 6
    /\ v_dec.val = v_diff

\* the predictor of an encoder that has processed the first k of the values
RECURSIVE PredictorAfter(_, _)
PredictorAfter(values, k) ==
    IF k = 0 THEN NewPredictor ELSE update(PredictorAfter(values, k - 1), values[k])

\* every table access of the predictor is in bounds
InBounds(p) ==
    /\ p.last_hash \in 0..(PREDICTOR_N - 1)
    /\ DOMAIN p.table \subseteq 0..(PREDICTOR_N - 1)

\* C16: the writer's predictor is the one obtained by updating with the values
\* put so far; a reader that has decoded the first k of those values holds the
\* predictor the writer held after k values, so both predict the same word
\* for value k + 1; last_hash of either is in [0, PREDICTOR_N).
C16_PredictorLockstep ==
    /\ f_pc # "idle" =>
           /\ f_w.predictor = PredictorAfter(f_in, Len(f_in))
           /\ InBounds(f_w.predictor)
           /\ InBounds(f_r.predictor)
    /\ (f_pc \in {"read", "done"} /\ f_out = SubSeq(f_in, 1, Len(f_out))) =>
           /\ f_r.predictor = PredictorAfter(f_in, Len(f_out))
           /\ predict_next(f_r.predictor) = predict_next(PredictorAfter(f_in, Len(f_out)))
           /\ Len(f_out) = Len(f_in) => f_r.predictor = f_w.predictor

\* three values decoded from the writer's stream, the predictor away from its
\* first slot and holding more than one value
C16_Witness ==
    /\ f_pc = "read"
    /\ f_src = "stream"
    /\ Len(f_in) = 3
    /\ f_out = f_in
    /\ f_r.predictor.last_hash # 0
    /\ Cardinality(DOMAIN f_r.predictor.table) >= 2
    /\ f_r.predictor = f_w.predictor

\* the diff and the flag of value i of the values
DiffAt(values, i) == U64Xor(values[i], predict_next(PredictorAfter(values, i - 1)))

\* a stream write, and the call it belongs to: put number `during`, or the
\* commit when `during` is past the last value
WritesOf(chunks, during) == [i \in 1..Len(chunks) |-> [bytes |-> chunks[i], during |-> during]]

\* the writes of the put of value j, the second of a pair
PairWrites(values, j) ==
    WritesOf(<< <<SelectFlag(DiffAt(values, j - 1)) * 16 + SelectFlag(DiffAt(values, j))>> >>
             \o EncodeWrites(DiffAt(values, j - 1), SelectFlag(DiffAt(values, j - 1)))
             \o EncodeWrites(DiffAt(values, j), SelectFlag(DiffAt(values, j))), j)

\* the writes of commit after n values
TailWrites(values, n) ==
    IF n % 2 = 0 THEN <<>>
    ELSE WritesOf(<< <<SelectFlag(DiffAt(values, n)) * 16>> >>
                  \o EncodeWrites(DiffAt(values, n), SelectFlag(DiffAt(values, n)))
                  \o EncodeWrites(Zero64, 0), n + 1)

\* the stream writes tput makes for the first j values when none is rejected
RECURSIVE PutWrites(_, _)
PutWrites(values, j) ==
    IF j = 0 THEN <<>>
    ELSE IF j % 2 = 0 THEN PutWrites(values, j - 1) \o PairWrites(values, j)
    ELSE PutWrites(values, j - 1)

TputWrites(values) == PutWrites(values, Len(values)) \o TailWrites(values, Len(values))

\* the bytes of the first k writes
RECURSIVE BytesOf(_, _)
BytesOf(writes, k) == IF k = 0 THEN <<>> ELSE BytesOf(writes, k - 1) \o writes[k].bytes

\* the first write that does not fit behind the ones before it, 0 when all fit
FirstRejected(writes, cap) ==
    IF \E k \in 1..Len(writes) : Len(BytesOf(writes, k)) > cap
    THEN CHOOSE k \in 1..Len(writes) :
            /\ Len(BytesOf(writes, k)) > cap
            /\ \A j \in 1..(k - 1) : Len(BytesOf(writes, j)) <= cap
    ELSE 0

\* C17: tput returns true iff no stream write of its puts and of the final
\* commit is rejected; when one is rejected the stream holds the writes before
\* it and nothing else, the values after the one being put are not given to
\* the predictor and are not counted, and commit has written nothing.
C17_TputStopsAtRejection ==
    t_pc = "done" =>
        \A ws \in {TputWrites(t_values)} : \A r \in {FirstRejected(ws, t_cap)} :
            /\ t_ok = (r = 0)
            /\ r = 0 =>
                   /\ t_s.buf = BytesOf(ws, Len(ws))
                   /\ t_w.nelements = Len(t_values)
                   /\ t_w.predictor = PredictorAfter(t_values, Len(t_values))
            /\ r # 0 =>
                   /\ t_s.buf = BytesOf(ws, r - 1)
                   /\ ws[r].during <= Len(t_values) =>
                          /\ t_w.nelements = ws[r].during - 1
                          /\ t_w.predictor = PredictorAfter(t_values, ws[r].during)
                   /\ ws[r].during > Len(t_values) =>
                          /\ t_w.nelements = Len(t_values)
                          /\ t_w.predictor = PredictorAfter(t_values, Len(t_values))

\* the second put of three values is rejected at its first diff after the flag
\* byte was written, with a one-byte diff behind it that would have fitted
C17_Witness ==
    /\ t_pc = "done"
    /\ ~t_ok
    /\ t_cap = 5
    /\ Len(t_values) = 3
    /\ Len(t_s.buf) = 1
    /\ t_w.nelements = 1
    /\ Len(EncodeWrites(DiffAt(t_values, 2), SelectFlag(DiffAt(t_values, 2)))) = 1
    /\ Len(EncodeWrites(DiffAt(t_values, 2), SelectFlag(DiffAt(t_values, 2)))[1]) = 1

\* C20: when the stream had room for every write of put and commit,
\* compress_doubles has written the same bytes for the same input; and
\* decompress_doubles asked for n values returns what n calls of
\* FcmStreamReader::next returned and stops at the same byte.
C20_EncodersAgree ==
    /\ (f_pc \in {"open", "read", "done"} /\ f_ok) => f_batch.buf = f_s.buf
    /\ (f_pc = "done" /\ f_rok /\ Len(f_out) = Len(f_in)) =>
           /\ f_dec[1].result = "ok"
           /\ f_dec[1].out = f_out
           /\ f_dec[1].r.pos = f_rs.pos

\* three values with two different diffs in the first pair, encoded both ways
\* into more bytes than the small region holds, and decoded both ways up to
\* the byte that pads the odd value
C20_Witness ==
    /\ f_pc = "done"
    /\ f_ok /\ f_rok
    /\ Len(f_in) = 3
    /\ f_in[1] # f_in[2]
    /\ Len(f_in) = Len(f_out)
    /\ Len(f_s.buf) > 5
    /\ f_batch.buf = f_s.buf
    /\ f_dec[1].out = f_out
    /\ f_dec[1].r.pos = f_rs.pos
    /\ f_rs.pos = Len(f_s.buf) - 1

\* the reader has returned as many values as the writer had taken at commit c
ReadUpTo(c) == f_pc = "read" /\ f_ok /\ f_rok /\ Len(f_out) = f_commits[c].at

\* C21: once the reader has returned the n values the writer had taken when it
\* committed, its cursor is at the end of the bytes written up to that commit,
\* for even and for odd n; and the values put after a commit are returned by
\* the further calls of next(), none of which runs out of data.
C21_ByteAligned ==
    /\ \A c \in DOMAIN f_commits : ReadUpTo(c) => f_rs.pos = f_commits[c].size
    /\ (f_pc = "read" /\ f_ok) =>
           /\ f_rok
           /\ f_out = SubSeq(f_in, 1, Len(f_out))

====
